---- MODULE Spec2Model ----
(***************************************************************************)
(* Student Management System (FastAPI + SQLAlchemy + SQLite).              *)
(*                                                                         *)
(* The committed contents of the four tables and of the uploads directory  *)
(* are the shared state.  Every HTTP request runs in a database session of *)
(* its own (database.get_db) on a thread of its own, so the statements of  *)
(* two handlers interleave freely.  A SELECT reads the latest committed    *)
(* state; an INSERT/UPDATE/DELETE issued by the flush inside db.commit()   *)
(* is made visible together with the COMMIT, in one step.  The bulk        *)
(* Query.delete() of delete_student/delete_course is executed when it is   *)
(* called: it opens the write transaction, which stays open until the      *)
(* db.commit() that follows; other writers wait for it (a writer that gave  *)
(* up waiting would fail with "database is locked" and write nothing).     *)
(***************************************************************************)
EXTENDS Integers, FiniteSets, TLC

VARIABLES users, students, courses, enrollments, files, req, wlock

tables == <<users, students, courses, enrollments>>
vars == <<users, students, courses, enrollments, files, req, wlock>>

(* ------------------------------ bounds --------------------------------- *)
NumSessions == 2      \* requests in flight at once
MaxId == 2            \* largest row id (and row count) of students, courses, enrollments
MaxUsers == 3         \* largest row id (and row count) of users

Sessions == 1..NumSessions
Ids == 1..MaxId

Null == "NULL"        \* SQL NULL / Python None
Unset == "unset"      \* a field the request body does not mention

NoPic == <<>>         \* students.profile_pic IS NULL

Names == {"n1", "n2"}
Emails == {"e1", "e2"}
Titles == {"t1", "t2"}
Descriptions == {Null, "d1"}
Usernames == {"admin", "u1", "u2"}
Roles == {"admin", "teacher", "guest"}
Exts == {".png", ".jpg"}

\* Bearer tokens: one that names a user (its "sub"), or one that does not verify.
BadTokens == {"missing", "invalid", "expired"}
Tokens == Usernames \cup BadTokens

(* ------------------------------ outcomes ------------------------------- *)
Ok == "200"
Unauthorized == "401"
Forbidden == "403"
NotFound == "404"
UsernameTaken == "400 Username already registered"
EmailTaken == "400 Email already registered"
EnrollRejected == "400 Student or course not found, or student already enrolled"
Deleted == "True"
NoEnrollment == "False"
InvalidFileType == "400 Invalid file type"
SaveFailed == "500 Failed to save file"
PicUpdateFailed == "500 Failed to update student profile picture"
\* exceptions no handler catches (the framework answers 500)
UniqueViolation == "IntegrityError: UNIQUE constraint failed"
NotNullViolation == "IntegrityError: NOT NULL constraint failed"
StaleData == "StaleDataError"
RefreshFailed == "InvalidRequestError: Could not refresh instance"

(* ------------------------------ helpers -------------------------------- *)
Max(S) == IF S = {} THEN 0 ELSE CHOOSE x \in S : \A y \in S : y <= x

RowIds(table) == {r.id : r \in table}

\* INTEGER PRIMARY KEY without AUTOINCREMENT: the next rowid is max(rowid) + 1.
NextId(table) == Max(RowIds(table)) + 1

Row(table, id) == CHOOSE r \in table : r.id = id

NoFields == [none |-> Unset]

Idle ==
  [op |-> "none", pc |-> "done", token |-> "none", student_id |-> 0,
   course_id |-> 0, fields |-> NoFields, db_obj |-> Null, result |-> "none"]

\* The response is sent and the session is closed: the record keeps the route and
\* the outcome.
Finished(r, res) == [Idle EXCEPT !.op = r.op, !.result = res]

InFlight(op) == Cardinality({s \in Sessions : req[s].op = op /\ req[s].pc # "done"})

\* Room left for one more request that inserts a row into `table`.
Room(table, op, cap) == Max(RowIds(table)) + InFlight(op) + 1 <= cap

(* ---------------------- queries of crud.py ----------------------------- *)
get_user_by_username(username) == {u \in users : u.username = username}

get_student(student_id) == {st \in students : st.id = student_id}

\* (variant: the lookup finds nothing)
get_student_by_email_none(email) == {}

get_student_by_email(email) == {st \in students : st.email = email}

get_course(course_id) == {c \in courses : c.id = course_id}

\* (variant: the duplicate check finds nothing)
existing_enrollment_none(student_id, course_id) == {}

existing_enrollment(student_id, course_id) ==
  {e \in enrollments : e.student_id = student_id /\ e.course_id = course_id}

get_student_enrollments(student_id) == {e \in enrollments : e.student_id = student_id}

get_course_enrollments(course_id) == {e \in enrollments : e.course_id = course_id}

(* ---------------------- access control --------------------------------- *)
\* auth.get_current_active_user: the token verifies and its user exists.
Resolve(token) == get_user_by_username(token)

\* (variant: POST /courses/ declares no current_user dependency)
AuthenticatedOpsButCreateCourse ==
  {"register", "create_student", "update_student", "delete_student",
   "update_course", "delete_course", "enroll", "upload"}

\* Every route below declares Depends(auth.get_current_active_user).
AuthenticatedOps ==
  {"register", "create_student", "update_student", "delete_student",
   "create_course", "update_course", "delete_course", "enroll", "upload"}

\* (variant: DELETE /students/{id} has no role check)
AdminOnlyOpsButDeleteStudent == {"register", "delete_course"}

\* The routes that start with: if current_user.role != "admin": raise 403.
AdminOnlyOps == {"register", "delete_student", "delete_course"}

IsAdmin(token) == \E u \in Resolve(token) : u.role = "admin"

\* The outcome of the dependencies and of the role check that opens the handler:
\* a failure, or "pass".
Admit(op, token) ==
  IF op \in AuthenticatedOps /\ Resolve(token) = {} THEN Unauthorized
  ELSE IF op \in AdminOnlyOps /\ ~IsAdmin(token) THEN Forbidden
  ELSE "pass"

\* The first statement of each handler that touches the database or the disk.
FirstPc(op) ==
  CASE op = "register" -> "check_username"
    [] op = "create_student" -> "check_email"
    [] op \in {"update_student", "delete_student", "update_course", "delete_course"} -> "get"
    [] op = "create_course" -> "commit"
    [] op \in {"enroll", "upload"} -> "get_student"

\* A request arrives on an idle session.
Arrive(s, op, token, r) ==
  /\ req[s].pc = "done"
  /\ req' = [req EXCEPT ![s] = [r EXCEPT !.op = op, !.token = token, !.pc = "auth"]]
  /\ UNCHANGED <<users, students, courses, enrollments, files, wlock>>

\* The dependencies are resolved and the handler's role check runs: the request
\* is turned away, or the handler goes on.
Authorize(s) ==
  /\ req[s].pc = "auth"
  /\ LET a == Admit(req[s].op, req[s].token)
     IN req' = [req EXCEPT ![s] =
                  IF a = "pass" THEN [req[s] EXCEPT !.pc = FirstPc(req[s].op)]
                  ELSE Finished(req[s], a)]
  /\ UNCHANGED <<users, students, courses, enrollments, files, wlock>>

Finish(s, res) == req' = [req EXCEPT ![s] = Finished(req[s], res)]

At(s, op, pc) == req[s].op = op /\ req[s].pc = pc

Goto(s, pc) == req' = [req EXCEPT ![s].pc = pc]

(* ---------------------- POST /students/ -------------------------------- *)
CreateStudentRequest(s, token, name, email) ==
  /\ Room(students, "create_student", MaxId)
  /\ Arrive(s, "create_student", token,
           [Idle EXCEPT !.fields = [name |-> name, email |-> email]])

\* main.create_student: get_student_by_email, 400 when a row has the email.
CreateStudentCheck(s) ==
  /\ At(s, "create_student", "check_email")
  /\ IF get_student_by_email(req[s].fields.email) # {}
       THEN Finish(s, EmailTaken)
       ELSE Goto(s, "commit")
  /\ UNCHANGED <<users, students, courses, enrollments, files, wlock>>

\* (variant: the email column is not unique)
EmailConflictOff(email, id) == FALSE

\* students.email is declared unique=True: the INSERT or UPDATE of a row whose
\* email another row holds fails.
EmailConflict(email, id) == \E st \in students : st.email = email /\ st.id # id

\* crud.create_student: add, commit, refresh.
CreateStudentCommit(s) ==
  /\ At(s, "create_student", "commit")
  /\ wlock = 0
  /\ LET f == req[s].fields
         id == NextId(students)
     IN IF EmailConflict(f.email, id)
          THEN Finish(s, UniqueViolation) /\ UNCHANGED students
          ELSE /\ students' = students \cup
                     {[id |-> id, name |-> f.name, email |-> f.email, profile_pic |-> NoPic]}
               /\ Finish(s, Ok)
  /\ UNCHANGED <<users, courses, enrollments, files, wlock>>

(* ---------------------- PUT /students/{id} ----------------------------- *)
UpdateStudentRequest(s, token, student_id, name, email) ==
  Arrive(s, "update_student", token,
        [Idle EXCEPT !.student_id = student_id,
                     !.fields = [name |-> name, email |-> email]])

\* crud.update_student: get_student, None (404) when there is no such row.
UpdateStudentGet(s) ==
  /\ At(s, "update_student", "get")
  /\ IF get_student(req[s].student_id) = {}
       THEN Finish(s, NotFound)
       ELSE req' = [req EXCEPT ![s].pc = "commit",
                               ![s].db_obj = Row(students, req[s].student_id)]
  /\ UNCHANGED <<users, students, courses, enrollments, files, wlock>>

\* (variant: dict() without exclude_unset, so that the fields the payload left
\* out are assigned as well)
ChangedWithUnset(loaded, f, cols) == {c \in cols : f[c] # loaded[c]}

\* update_data = dict(exclude_unset=True); setattr for each item.  The flush
\* writes the attributes whose value differs from the one that was loaded.
Changed(loaded, f, cols) == {c \in cols : f[c] # Unset /\ f[c] # loaded[c]}

Patched(row, f, cols) ==
  [c \in DOMAIN row |-> IF c \in cols THEN f[c] ELSE row[c]]

\* The outcome of UPDATE students SET <changed> WHERE id = loaded.id, commit, refresh.
UpdateStudentOutcome(loaded, f) ==
  LET ch == Changed(loaded, f, {"name", "email"})
  IN IF get_student(loaded.id) = {}
       THEN IF ch = {} THEN RefreshFailed ELSE StaleData
     ELSE IF \E c \in ch : f[c] = Null THEN NotNullViolation
     ELSE IF "email" \in ch /\ EmailConflict(f.email, loaded.id) THEN UniqueViolation
     ELSE Ok

UpdateStudentCommit(s) ==
  /\ At(s, "update_student", "commit")
  /\ wlock = 0
  /\ LET loaded == req[s].db_obj
         f == req[s].fields
         res == UpdateStudentOutcome(loaded, f)
     IN /\ students' =
             IF res = Ok
               THEN {IF st.id = loaded.id
                       THEN Patched(st, f, Changed(loaded, f, {"name", "email"}))
                       ELSE st : st \in students}
               ELSE students
        /\ Finish(s, res)
  /\ UNCHANGED <<users, courses, enrollments, files, wlock>>

(* ---------------------- DELETE /students/{id} -------------------------- *)
DeleteStudentRequest(s, token, student_id) ==
  Arrive(s, "delete_student", token,
        [Idle EXCEPT !.student_id = student_id])

\* crud.delete_student: get_student, False (404) when there is no such row.
DeleteStudentGet(s) ==
  /\ At(s, "delete_student", "get")
  /\ IF get_student(req[s].student_id) = {}
       THEN Finish(s, NotFound)
       ELSE Goto(s, "delete_enrollments")
  /\ UNCHANGED <<users, students, courses, enrollments, files, wlock>>

\* (variant: the bulk DELETE is committed on its own, before the student's DELETE)
DeleteStudentEnrollmentsAutocommit(s) ==
  /\ At(s, "delete_student", "delete_enrollments")
  /\ wlock = 0
  /\ wlock' = s
  /\ enrollments' = enrollments \ get_student_enrollments(req[s].student_id)
  /\ Goto(s, "commit")
  /\ UNCHANGED <<users, students, courses, files>>

\* db.query(Enrollment).filter(student_id == id).delete(): executed now, inside
\* the write transaction it opens; nothing is visible before the commit.
DeleteStudentEnrollments(s) ==
  /\ At(s, "delete_student", "delete_enrollments")
  /\ wlock = 0
  /\ wlock' = s
  /\ Goto(s, "commit")
  /\ UNCHANGED <<users, students, courses, enrollments, files>>

\* db.delete(db_student); db.commit(): the transaction's two DELETEs appear at once.
DeleteStudentCommit(s) ==
  /\ At(s, "delete_student", "commit")
  /\ wlock = s
  /\ enrollments' = enrollments \ get_student_enrollments(req[s].student_id)
  /\ students' = students \ get_student(req[s].student_id)
  /\ wlock' = 0
  /\ Finish(s, Ok)
  /\ UNCHANGED <<users, courses, files>>

(* ---------------------- POST /courses/ --------------------------------- *)
CreateCourseRequest(s, token, title, description) ==
  /\ Room(courses, "create_course", MaxId)
  /\ Arrive(s, "create_course", token,
           [Idle EXCEPT !.fields = [title |-> title, description |-> description]])

\* crud.create_course: add, commit, refresh.
CreateCourseCommit(s) ==
  /\ At(s, "create_course", "commit")
  /\ wlock = 0
  /\ courses' = courses \cup
       {[id |-> NextId(courses), title |-> req[s].fields.title,
         description |-> req[s].fields.description]}
  /\ Finish(s, Ok)
  /\ UNCHANGED <<users, students, enrollments, files, wlock>>

(* ---------------------- DELETE /courses/{id} --------------------------- *)
DeleteCourseRequest(s, token, course_id) ==
  Arrive(s, "delete_course", token,
        [Idle EXCEPT !.course_id = course_id])

DeleteCourseGet(s) ==
  /\ At(s, "delete_course", "get")
  /\ IF get_course(req[s].course_id) = {}
       THEN Finish(s, NotFound)
       ELSE Goto(s, "delete_enrollments")
  /\ UNCHANGED <<users, students, courses, enrollments, files, wlock>>

DeleteCourseEnrollments(s) ==
  /\ At(s, "delete_course", "delete_enrollments")
  /\ wlock = 0
  /\ wlock' = s
  /\ Goto(s, "commit")
  /\ UNCHANGED <<users, students, courses, enrollments, files>>

DeleteCourseCommit(s) ==
  /\ At(s, "delete_course", "commit")
  /\ wlock = s
  /\ enrollments' = enrollments \ get_course_enrollments(req[s].course_id)
  /\ courses' = courses \ get_course(req[s].course_id)
  /\ wlock' = 0
  /\ Finish(s, Ok)
  /\ UNCHANGED <<users, students, files>>

(* ---------------------- POST /enroll/ ---------------------------------- *)
EnrollRequest(s, token, student_id, course_id) ==
  /\ Room(enrollments, "enroll", MaxId)
  /\ Arrive(s, "enroll", token,
           [Idle EXCEPT !.student_id = student_id,
                        !.course_id = course_id])

\* student = get_student(db, enrollment.student_id)
EnrollGetStudent(s) ==
  /\ At(s, "enroll", "get_student")
  /\ req' = [req EXCEPT ![s].pc = "get_course",
                        ![s].db_obj = get_student(req[s].student_id) # {}]
  /\ UNCHANGED <<users, students, courses, enrollments, files, wlock>>

\* course = get_course(db, enrollment.course_id); if not student or not course: None
EnrollGetCourse(s) ==
  /\ At(s, "enroll", "get_course")
  /\ IF ~req[s].db_obj \/ get_course(req[s].course_id) = {}
       THEN Finish(s, EnrollRejected)
       ELSE req' = [req EXCEPT ![s].pc = "check_existing", ![s].db_obj = Null]
  /\ UNCHANGED <<users, students, courses, enrollments, files, wlock>>

\* existing_enrollment = ...first(); if existing_enrollment: None
EnrollCheckExisting(s) ==
  /\ At(s, "enroll", "check_existing")
  /\ IF existing_enrollment(req[s].student_id, req[s].course_id) # {}
       THEN Finish(s, EnrollRejected)
       ELSE Goto(s, "commit")
  /\ UNCHANGED <<users, students, courses, enrollments, files, wlock>>

\* The constraints the enrollments table declares that SQLite checks on INSERT:
\* none.  There is no unique constraint on (student_id, course_id), and the
\* ForeignKey columns are not enforced (no PRAGMA foreign_keys=ON is issued).
EnrollmentInsertRefused(student_id, course_id) == FALSE

\* db.add(db_enrollment); db.commit(); db.refresh(db_enrollment)
EnrollCommit(s) ==
  /\ At(s, "enroll", "commit")
  /\ wlock = 0
  /\ IF EnrollmentInsertRefused(req[s].student_id, req[s].course_id)
       THEN Finish(s, UniqueViolation) /\ UNCHANGED enrollments
       ELSE /\ enrollments' = enrollments \cup
                  {[id |-> NextId(enrollments), student_id |-> req[s].student_id,
                    course_id |-> req[s].course_id]}
            /\ Finish(s, Ok)
  /\ UNCHANGED <<users, students, courses, files, wlock>>

(* ---------------------- crud.delete_enrollment ------------------------- *)
\* No route of main.py calls this function: a caller that holds a session of its
\* own calls it with a student id and a course id.
DeleteEnrollmentCall(s, student_id, course_id) ==
  /\ req[s].pc = "done"
  /\ req' = [req EXCEPT ![s] = [Idle EXCEPT !.op = "delete_enrollment",
                                            !.pc = "get",
                                            !.student_id = student_id,
                                            !.course_id = course_id]]
  /\ UNCHANGED <<users, students, courses, enrollments, files, wlock>>

\* enrollment = db.query(Enrollment).filter(...).first(): one of the rows of the
\* pair (the query has no ORDER BY); if not enrollment: return False.
DeleteEnrollmentGet(s) ==
  /\ At(s, "delete_enrollment", "get")
  /\ IF existing_enrollment(req[s].student_id, req[s].course_id) = {}
       THEN Finish(s, NoEnrollment)
       ELSE \E e \in existing_enrollment(req[s].student_id, req[s].course_id) :
              req' = [req EXCEPT ![s].pc = "commit", ![s].db_obj = e]
  /\ UNCHANGED <<users, students, courses, enrollments, files, wlock>>

\* db.delete(enrollment); db.commit(); return True.  The flush issues DELETE FROM
\* enrollments WHERE id = <the loaded row's id>; a DELETE that matches no row is
\* only warned about.
DeleteEnrollmentCommit(s) ==
  /\ At(s, "delete_enrollment", "commit")
  /\ wlock = 0
  /\ enrollments' = {e \in enrollments : e.id # req[s].db_obj.id}
  /\ Finish(s, Deleted)
  /\ UNCHANGED <<users, students, courses, files, wlock>>

(* ---------------------- PUT /courses/{id} ------------------------------ *)
UpdateCourseRequest(s, token, course_id, title, description) ==
  Arrive(s, "update_course", token,
        [Idle EXCEPT !.course_id = course_id,
                     !.fields = [title |-> title, description |-> description]])

\* crud.update_course: get_course, None (404) when there is no such row.
UpdateCourseGet(s) ==
  /\ At(s, "update_course", "get")
  /\ IF get_course(req[s].course_id) = {}
       THEN Finish(s, NotFound)
       ELSE req' = [req EXCEPT ![s].pc = "commit",
                               ![s].db_obj = Row(courses, req[s].course_id)]
  /\ UNCHANGED <<users, students, courses, enrollments, files, wlock>>

\* The outcome of UPDATE courses SET <changed> WHERE id = loaded.id, commit, refresh.
\* title is NOT NULL, description is nullable.
UpdateCourseOutcome(loaded, f) ==
  LET ch == Changed(loaded, f, {"title", "description"})
  IN IF get_course(loaded.id) = {}
       THEN IF ch = {} THEN RefreshFailed ELSE StaleData
     ELSE IF "title" \in ch /\ f.title = Null THEN NotNullViolation
     ELSE Ok

UpdateCourseCommit(s) ==
  /\ At(s, "update_course", "commit")
  /\ wlock = 0
  /\ LET loaded == req[s].db_obj
         f == req[s].fields
         res == UpdateCourseOutcome(loaded, f)
     IN /\ courses' =
             IF res = Ok
               THEN {IF c.id = loaded.id
                       THEN Patched(c, f, Changed(loaded, f, {"title", "description"}))
                       ELSE c : c \in courses}
               ELSE courses
        /\ Finish(s, res)
  /\ UNCHANGED <<users, students, enrollments, files, wlock>>

(* ---------------------- POST /register --------------------------------- *)
RegisterRequest(s, token, username, role) ==
  /\ Room(users, "register", MaxUsers)
  /\ Arrive(s, "register", token,
           [Idle EXCEPT !.fields = [username |-> username, role |-> role]])

\* main.register_user: get_user_by_username, 400 when a row has the username.
RegisterCheck(s) ==
  /\ At(s, "register", "check_username")
  /\ IF get_user_by_username(req[s].fields.username) # {}
       THEN Finish(s, UsernameTaken)
       ELSE Goto(s, "commit")
  /\ UNCHANGED <<users, students, courses, enrollments, files, wlock>>

\* (variant: the username column is not unique)
UsernameConflictOff(username) == FALSE

\* users.username is declared unique=True.
UsernameConflict(username) == \E u \in users : u.username = username

\* crud.create_user: add, commit, refresh (the password hash is not modelled).
RegisterCommit(s) ==
  /\ At(s, "register", "commit")
  /\ wlock = 0
  /\ LET f == req[s].fields
     IN IF UsernameConflict(f.username)
          THEN Finish(s, UniqueViolation) /\ UNCHANGED users
          ELSE /\ users' = users \cup
                     {[id |-> NextId(users), username |-> f.username, role |-> f.role]}
               /\ Finish(s, Ok)
  /\ UNCHANGED <<students, courses, enrollments, files, wlock>>

(* ---------------------- POST /upload/ ---------------------------------- *)
allowed_types == {"image/jpeg", "image/png", "image/gif", "image/webp"}

\* os.path.join("uploads", f"student_{student_id}_profile{file_extension}")
file_path(student_id, ext) == <<"uploads", student_id, ext>>

UploadRequest(s, token, student_id, ext, content_type) ==
  Arrive(s, "upload", token,
        [Idle EXCEPT !.student_id = student_id,
                     !.fields = [ext |-> ext, content_type |-> content_type]])

\* student = crud.get_student(...): 404; then the content-type check: 400.
UploadGetStudent(s) ==
  /\ At(s, "upload", "get_student")
  /\ IF get_student(req[s].student_id) = {}
       THEN Finish(s, NotFound)
       ELSE IF req[s].fields.content_type \notin allowed_types
         THEN Finish(s, InvalidFileType)
         ELSE req' = [req EXCEPT ![s].pc = "save",
                                 ![s].db_obj = Row(students, req[s].student_id)]
  /\ UNCHANGED <<users, students, courses, enrollments, files, wlock>>

Written(path, complete) ==
  {f \in files : f.path # path} \cup {[path |-> path, complete |-> complete]}

\* with open(file_path, "wb") as buffer: shutil.copyfileobj(file.file, buffer),
\* except Exception: raise 500.  open() may fail (nothing written), the copy may
\* fail after open() truncated or created the file (a partial file stays), or
\* the whole file is written.
UploadSave(s) ==
  /\ At(s, "upload", "save")
  /\ LET path == file_path(req[s].student_id, req[s].fields.ext)
     IN \/ /\ files' = Written(path, TRUE)
           /\ Goto(s, "update_get")
        \/ /\ files' = Written(path, FALSE)
           /\ Finish(s, SaveFailed)
        \/ /\ UNCHANGED files
           /\ Finish(s, SaveFailed)
  /\ UNCHANGED <<users, students, courses, enrollments, wlock>>

\* crud.update_student_profile_pic: get_student; on None the handler removes the
\* file and raises 500.  The Student object loaded by the handler's first query
\* is still in the session: the second query returns it with the attributes it
\* was loaded with.
UploadUpdateGet(s) ==
  /\ At(s, "upload", "update_get")
  /\ LET path == file_path(req[s].student_id, req[s].fields.ext)
     IN IF get_student(req[s].student_id) = {}
          THEN /\ files' = {f \in files : f.path # path}
               /\ Finish(s, PicUpdateFailed)
          ELSE /\ UNCHANGED files
               /\ Goto(s, "commit")
  /\ UNCHANGED <<users, students, courses, enrollments, wlock>>

\* db_student.profile_pic = profile_pic_path; db.commit(); db.refresh(db_student)
UploadCommit(s) ==
  /\ At(s, "upload", "commit")
  /\ wlock = 0
  /\ LET loaded == req[s].db_obj
         path == file_path(req[s].student_id, req[s].fields.ext)
         changed == loaded.profile_pic # path
     IN IF get_student(loaded.id) = {}
          THEN /\ UNCHANGED students
               /\ Finish(s, IF changed THEN StaleData ELSE RefreshFailed)
          ELSE /\ students' =
                    IF changed
                      THEN {IF st.id = loaded.id
                              THEN [st EXCEPT !.profile_pic = path]
                              ELSE st : st \in students}
                      ELSE students
               /\ Finish(s, Ok)
  /\ UNCHANGED <<users, courses, enrollments, files, wlock>>

(* ---------------------- initial state ---------------------------------- *)
\* startup_event: the tables exist and the default admin has been created.
DefaultAdmin == [id |-> 1, username |-> "admin", role |-> "admin"]

Init ==
  /\ users = {DefaultAdmin}
  /\ students = {}
  /\ courses = {}
  /\ enrollments = {}
  /\ files = {}
  /\ req = [s \in Sessions |-> Idle]
  /\ wlock = 0

(* ---------------------- the service ------------------------------------ *)
\* No request is in flight.
Quiet == \A s \in Sessions : req[s].pc = "done"

StudentFieldValues(S) == S \cup {Unset, Null}

Requests(s) ==
  \E token \in Tokens :
    \/ \E u \in Usernames, r \in Roles : RegisterRequest(s, token, u, r)
    \/ \E n \in Names, e \in Emails : CreateStudentRequest(s, token, n, e)
    \/ \E i \in Ids, n \in StudentFieldValues(Names), e \in StudentFieldValues(Emails) :
         UpdateStudentRequest(s, token, i, n, e)
    \/ \E i \in Ids : DeleteStudentRequest(s, token, i)
    \/ \E ti \in Titles, d \in Descriptions : CreateCourseRequest(s, token, ti, d)
    \/ \E j \in Ids, ti \in StudentFieldValues(Titles), d \in Descriptions \cup {Unset} :
         UpdateCourseRequest(s, token, j, ti, d)
    \/ \E j \in Ids : DeleteCourseRequest(s, token, j)
    \/ \E i \in Ids, j \in Ids : EnrollRequest(s, token, i, j)
    \/ \E i \in Ids, x \in Exts, ct \in {"image/png", "text/plain"} :
         UploadRequest(s, token, i, x, ct)

StudentSteps(s) ==
  \/ CreateStudentCheck(s)
  \/ CreateStudentCommit(s)
  \/ UpdateStudentGet(s)
  \/ UpdateStudentCommit(s)
  \/ DeleteStudentGet(s)
  \/ DeleteStudentEnrollments(s)
  \/ DeleteStudentCommit(s)

CourseSteps(s) ==
  \/ CreateCourseCommit(s)
  \/ UpdateCourseGet(s)
  \/ UpdateCourseCommit(s)
  \/ DeleteCourseGet(s)
  \/ DeleteCourseEnrollments(s)
  \/ DeleteCourseCommit(s)

EnrollSteps(s) ==
  \/ EnrollGetStudent(s)
  \/ EnrollGetCourse(s)
  \/ EnrollCheckExisting(s)
  \/ EnrollCommit(s)

RegisterSteps(s) ==
  \/ RegisterCheck(s)
  \/ RegisterCommit(s)

UploadSteps(s) ==
  \/ UploadGetStudent(s)
  \/ UploadSave(s)
  \/ UploadUpdateGet(s)
  \/ UploadCommit(s)

DeleteEnrollmentSteps(s) ==
  \/ DeleteEnrollmentGet(s)
  \/ DeleteEnrollmentCommit(s)

Next ==
  \E s \in Sessions :
    \/ Requests(s)
    \/ \E i \in Ids, j \in Ids : DeleteEnrollmentCall(s, i, j)
    \/ Authorize(s)
    \/ StudentSteps(s)
    \/ CourseSteps(s)
    \/ EnrollSteps(s)
    \/ RegisterSteps(s)
    \/ UploadSteps(s)
    \/ DeleteEnrollmentSteps(s)

Spec == Init /\ [][Next]_vars

(* ---------------------- enrollment workload ---------------------------- *)
\* Students and courses are created and deleted and students are enrolled, by
\* the admin, with requests overlapping.
EnrollRequests(s) ==
  \/ \E e \in Emails : CreateStudentRequest(s, "admin", "n1", e)
  \/ CreateCourseRequest(s, "admin", "t1", Null)
  \/ \E i \in Ids, j \in Ids : EnrollRequest(s, "admin", i, j)
  \/ \E i \in Ids : DeleteStudentRequest(s, "admin", i)
  \/ \E j \in Ids : DeleteCourseRequest(s, "admin", j)

EnrollWorkSteps(s) ==
  \/ CreateStudentCheck(s)
  \/ CreateStudentCommit(s)
  \/ CreateCourseCommit(s)
  \/ EnrollSteps(s)
  \/ DeleteStudentGet(s)
  \/ DeleteStudentEnrollments(s)
  \/ DeleteStudentCommit(s)
  \/ DeleteCourseGet(s)
  \/ DeleteCourseEnrollments(s)
  \/ DeleteCourseCommit(s)

NextEnroll ==
  \E s \in Sessions : EnrollRequests(s) \/ Authorize(s) \/ EnrollWorkSteps(s)

SpecEnroll == Init /\ [][NextEnroll]_vars

\* The same requests, one at a time: a request starts when none is in flight.
NextEnrollSeq ==
  \E s \in Sessions :
    (Quiet /\ EnrollRequests(s)) \/ Authorize(s) \/ EnrollWorkSteps(s)

SpecEnrollSeq == Init /\ [][NextEnrollSeq]_vars

(* ---------------------- student workload ------------------------------- *)
\* Students are created, updated and deleted by the admin, requests overlapping.
StudentRequests(s) ==
  \/ \E e \in Emails : CreateStudentRequest(s, "admin", "n1", e)
  \/ \E i \in Ids, n \in {Unset, "n2"}, e \in StudentFieldValues(Emails) :
       UpdateStudentRequest(s, "admin", i, n, e)
  \/ \E i \in Ids : DeleteStudentRequest(s, "admin", i)

NextStudent ==
  \E s \in Sessions : StudentRequests(s) \/ Authorize(s) \/ StudentSteps(s)

SpecStudent == Init /\ [][NextStudent]_vars

(* ---------------------- registration workload -------------------------- *)
RegisterRequests(s) ==
  \E token \in Usernames \cup {"expired"}, u \in Usernames, r \in Roles :
    RegisterRequest(s, token, u, r)

NextRegister ==
  \E s \in Sessions : RegisterRequests(s) \/ Authorize(s) \/ RegisterSteps(s)

SpecRegister == Init /\ [][NextRegister]_vars

(* ---------------------- access workload -------------------------------- *)
\* Every mutating route, called with the admin's token, a teacher's token and
\* tokens that do not verify; the teacher u1 is registered by the admin.  One
\* request at a time.
AccessTokens == {"admin", "u1"} \cup BadTokens

AccessRequests(s) ==
  \E token \in AccessTokens :
    \/ RegisterRequest(s, token, "u1", "teacher")
    \/ CreateStudentRequest(s, token, "n1", "e1")
    \/ UpdateStudentRequest(s, token, 1, "n2", Unset)
    \/ DeleteStudentRequest(s, token, 1)
    \/ CreateCourseRequest(s, token, "t1", Null)
    \/ UpdateCourseRequest(s, token, 1, Unset, "d1")
    \/ DeleteCourseRequest(s, token, 1)
    \/ EnrollRequest(s, token, 1, 1)
    \/ UploadRequest(s, token, 1, ".png", "image/png")

NextAccess ==
  \E s \in Sessions :
    \/ Quiet /\ AccessRequests(s)
    \/ Authorize(s)
    \/ StudentSteps(s)
    \/ CourseSteps(s)
    \/ EnrollSteps(s)
    \/ RegisterSteps(s)
    \/ UploadSteps(s)

SpecAccess == Init /\ [][NextAccess]_vars

(* ---------------------- role workload ---------------------------------- *)
\* The admin registers the teacher u1, creates a student and a course and
\* enrolls the student; the admin and the teacher both ask for deletions.
\* Requests overlap.
RoleRequests(s) ==
  \/ RegisterRequest(s, "admin", "u1", "teacher")
  \/ CreateStudentRequest(s, "admin", "n1", "e1")
  \/ CreateCourseRequest(s, "admin", "t1", Null)
  \/ EnrollRequest(s, "admin", 1, 1)
  \/ \E token \in {"admin", "u1"} :
       \/ DeleteStudentRequest(s, token, 1)
       \/ DeleteCourseRequest(s, token, 1)

NextRole ==
  \E s \in Sessions :
    \/ RoleRequests(s)
    \/ Authorize(s)
    \/ RegisterSteps(s)
    \/ EnrollWorkSteps(s)

SpecRole == Init /\ [][NextRole]_vars

(* ---------------------- upload workload -------------------------------- *)
\* The admin creates and deletes the student with id 1 and uploads profile
\* pictures for it, with an image and with a text file.  Requests overlap.
UploadRequests(s) ==
  \/ CreateStudentRequest(s, "admin", "n1", "e1")
  \/ DeleteStudentRequest(s, "admin", 1)
  \/ \E x \in Exts, ct \in {"image/png", "text/plain"} :
       UploadRequest(s, "admin", 1, x, ct)

NextUpload ==
  \E s \in Sessions :
    \/ UploadRequests(s)
    \/ Authorize(s)
    \/ CreateStudentCheck(s)
    \/ CreateStudentCommit(s)
    \/ DeleteStudentGet(s)
    \/ DeleteStudentEnrollments(s)
    \/ DeleteStudentCommit(s)
    \/ UploadSteps(s)

SpecUpload == Init /\ [][NextUpload]_vars

(* ---------------------- update workload -------------------------------- *)
\* The admin creates students and a course, updates the students with payloads
\* that carry one field, both or none and course 1 with payloads that carry
\* one field, and deletes student 1.  Requests overlap.
UpdateRequests(s) ==
  \/ \E e \in Emails : CreateStudentRequest(s, "admin", "n1", e)
  \/ \E i \in Ids, n \in {Unset, "n2"}, e \in {Unset, "e2"} :
       UpdateStudentRequest(s, "admin", i, n, e)
  \/ DeleteStudentRequest(s, "admin", 1)
  \/ CreateCourseRequest(s, "admin", "t1", Null)
  \/ \E f \in {<<"t2", Unset>>, <<Unset, "d1">>} :
       UpdateCourseRequest(s, "admin", 1, f[1], f[2])

NextUpdate ==
  \E s \in Sessions :
    \/ UpdateRequests(s)
    \/ Authorize(s)
    \/ StudentSteps(s)
    \/ CreateCourseCommit(s)
    \/ UpdateCourseGet(s)
    \/ UpdateCourseCommit(s)

SpecUpdate == Init /\ [][NextUpdate]_vars

(* ---------------------- unenroll workload ------------------------------ *)
\* The admin creates students and a course, enrolls the students in course 1
\* and deletes student 1 and course 1; crud.delete_enrollment is called for the
\* pairs of course 1.  Requests and calls overlap.
UnenrollRequests(s) ==
  \/ \E e \in Emails : CreateStudentRequest(s, "admin", "n1", e)
  \/ CreateCourseRequest(s, "admin", "t1", Null)
  \/ \E i \in Ids : EnrollRequest(s, "admin", i, 1)
  \/ \E i \in Ids : DeleteEnrollmentCall(s, i, 1)
  \/ DeleteStudentRequest(s, "admin", 1)
  \/ DeleteCourseRequest(s, "admin", 1)

NextUnenroll ==
  \E s \in Sessions :
    \/ UnenrollRequests(s)
    \/ Authorize(s)
    \/ EnrollWorkSteps(s)
    \/ DeleteEnrollmentSteps(s)

SpecUnenroll == Init /\ [][NextUnenroll]_vars

(* ====================== C1 .. C3: enrollment integrity ================== *)

\* C1: concurrent enroll requests for one (student_id, course_id) pair yield
\* exactly one success, so no reachable state holds two enrollment rows with
\* the same (student_id, course_id).
C1_NoDuplicateEnrollment ==
  \A e1 \in enrollments, e2 \in enrollments :
    (e1.student_id = e2.student_id /\ e1.course_id = e2.course_id) => e1 = e2

\* C2: in every committed state every enrollment row references a student row
\* and a course row that both exist.
C2_NoDanglingEnrollment ==
  \A e \in enrollments :
    /\ \E st \in students : st.id = e.student_id
    /\ \E c \in courses : c.id = e.course_id

\* C3: deleting a student (course) removes its enrollment rows and the row
\* itself in one commit.  In every step: an entity that disappears leaves no
\* enrollment row referencing it (so no per-course or per-student listing shows
\* it), and an enrollment row disappears only together with its student or its
\* course.
C3_CascadeAtomic ==
  [][/\ \A st \in students :
          (\A x \in students' : x.id # st.id) =>
             /\ \A e \in enrollments' : e.student_id # st.id
             /\ \A c \in courses', e \in enrollments' :
                  e.course_id = c.id => e.student_id # st.id
     /\ \A c \in courses :
          (\A x \in courses' : x.id # c.id) =>
             /\ \A e \in enrollments' : e.course_id # c.id
             /\ \A st \in students', e \in enrollments' :
                  e.student_id = st.id => e.course_id # c.id
     /\ \A e \in enrollments \ enrollments' :
          \/ \A x \in students' : x.id # e.student_id
          \/ \A x \in courses' : x.id # e.course_id
    ]_vars

\* A delete of a student enrolled in two courses has issued its bulk DELETE and
\* not yet committed: the committed state still shows the student and both links.
C3_Witness ==
  \E s \in Sessions :
    /\ At(s, "delete_student", "commit")
    /\ wlock = s
    /\ get_student(req[s].student_id) # {}
    /\ Cardinality({e.course_id : e \in get_student_enrollments(req[s].student_id)}) = 2

(* ====================== C4: re-enroll =================================== *)

\* C4: with requests served one at a time, an enroll request that ends while
\* an enrollment row for its (student_id, course_id) exists is rejected (400),
\* leaves the enrollments table as it was, and exactly one row for the pair
\* exists afterwards.
C4_ReEnrollRejected ==
  [][\A s \in Sessions :
       LET link == {e \in enrollments : /\ e.student_id = req[s].student_id
                                        /\ e.course_id = req[s].course_id}
       IN (/\ req[s].op = "enroll"
           /\ req[s].pc \notin {"auth", "done"}
           /\ req'[s].pc = "done"
           /\ link # {})
          => /\ req'[s].result = EnrollRejected
             /\ enrollments' = enrollments
             /\ Cardinality(link) = 1
    ]_vars

\* An enroll request has found its student and its course and is about to run
\* the duplicate check while the pair is already enrolled.
C4_Witness ==
  \E s \in Sessions :
    /\ At(s, "enroll", "check_existing")
    /\ \E e \in enrollments : /\ e.student_id = req[s].student_id
                              /\ e.course_id = req[s].course_id

(* ====================== C5 .. C7: student email ========================= *)

\* C5: a step of a create-student request taken while a student row holds the
\* request's email ends the request with a duplicate failure (the handler's 400
\* at its check, the UNIQUE violation at its commit) and leaves the students
\* table as it was.
C5_DuplicateEmailRejected ==
  [][\A s \in Sessions :
       (/\ req[s].op = "create_student"
        /\ req[s].pc \in {"check_email", "commit"}
        /\ req'[s] # req[s]
        /\ \E st \in students : st.email = req[s].fields.email)
       => /\ req'[s].pc = "done"
          /\ req'[s].result =
               IF req[s].pc = "check_email" THEN EmailTaken ELSE UniqueViolation
          /\ students' = students
    ]_vars

C5_Witness ==
  \E s \in Sessions :
    /\ req[s].op = "create_student"
    /\ req[s].result = EmailTaken
    /\ students # {}

\* C6: in every committed state no two student rows have the same email.
C6_EmailUnique ==
  \A a \in students, b \in students : a.email = b.email => a = b

\* Two requests raced for one email: the loser's commit was refused while a
\* student row holds an email.
C6_Witness ==
  \E s \in Sessions :
    /\ req[s].op \in {"create_student", "update_student"}
    /\ req[s].result = UniqueViolation
    /\ Cardinality(students) = 2

\* C7: an update-student request that sets the email of an existing student to
\* the email of another existing student is rejected with the typed
\* duplicate-key failure and leaves the students table as it was.
C7_UpdateDuplicateTyped ==
  [][\A s \in Sessions :
       (/\ At(s, "update_student", "commit")
        /\ req'[s] # req[s]
        /\ req[s].fields.name # Null
        /\ \E st \in students : st.id = req[s].student_id
        /\ \E st \in students : /\ st.email = req[s].fields.email
                                /\ st.id # req[s].student_id)
       => /\ req'[s].result = EmailTaken
          /\ students' = students
    ]_vars

(* ====================== C8 .. C10: access control ======================= *)

\* The user a token names, when it names one and the role is not admin.
NonAdmin(token) == \E u \in users : u.username = token /\ u.role # "admin"

\* C8: a delete-student or delete-course request of an authenticated non-admin
\* ends with 403 at the role check, before any statement of the handler, and
\* leaves the tables and the files as they were; no delete handler ever runs for
\* a non-admin.
C8_DeleteForbidden ==
  /\ [](\A s \in Sessions :
          (req[s].op \in {"delete_student", "delete_course"}
             /\ req[s].pc \notin {"auth", "done"})
          => ~NonAdmin(req[s].token))
  /\ [][\A s \in Sessions :
          (/\ req[s].op \in {"delete_student", "delete_course"}
           /\ req[s].pc = "auth"
           /\ NonAdmin(req[s].token)
           /\ req'[s] # req[s])
          => /\ req'[s].pc = "done"
             /\ req'[s].result = Forbidden
             /\ tables' = tables
             /\ files' = files
             /\ wlock' = wlock
       ]_vars

C8_Witness ==
  \E s \in Sessions :
    /\ req[s].op = "delete_student"
    /\ req[s].result = Forbidden
    /\ \E st \in students : st.id = 1
    /\ \E e \in enrollments : e.student_id = 1

\* C9: a request of a mutating route whose token is missing, invalid or expired
\* ends with 401 when its dependencies are resolved and changes nothing; the
\* handlers that run hold a token that names an existing user, and the tables
\* and the files change only in steps of such handlers.
C9_AuthFirst ==
  /\ [](\A s \in Sessions :
          req[s].pc \notin {"auth", "done"}
          => \E u \in users : u.username = req[s].token)
  /\ [][/\ \A s \in Sessions :
             (req[s].pc = "auth" /\ req[s].token \in BadTokens /\ req'[s] # req[s])
             => /\ req'[s].pc = "done"
                /\ req'[s].result = Unauthorized
                /\ tables' = tables
                /\ files' = files
        /\ (tables' # tables \/ files' # files)
             => \E s \in Sessions :
                  /\ req[s].pc \notin {"auth", "done"}
                  /\ req'[s] # req[s]
       ]_vars

C9_Witness ==
  \E s \in Sessions, t \in Sessions :
    /\ req[s].op = "upload"
    /\ req[s].result = Unauthorized
    /\ req[t].op = "enroll"
    /\ req[t].result = Unauthorized
    /\ students # {}
    /\ courses # {}

\* C10: usernames are unique in every state; a register request of an
\* authenticated non-admin ends with 403; a step of a register handler taken
\* while a user row holds the request's username ends the request as a duplicate
\* (the handler's 400 at its check, the UNIQUE violation at its commit); in all
\* three cases the users table is as it was; and the users table changes only by
\* the commit of an admin's register request, which adds one row with a username
\* no row held.
C10_Registration ==
  /\ [](\A a \in users, b \in users : a.username = b.username => a = b)
  /\ [][/\ \A s \in Sessions :
             (/\ req[s].op = "register"
              /\ req[s].pc = "auth"
              /\ NonAdmin(req[s].token)
              /\ req'[s] # req[s])
             => /\ req'[s].result = Forbidden
                /\ users' = users
        /\ \A s \in Sessions :
             (/\ req[s].op = "register"
              /\ req[s].pc \in {"check_username", "commit"}
              /\ req'[s] # req[s]
              /\ \E u \in users : u.username = req[s].fields.username)
             => /\ req'[s].result =
                     IF req[s].pc = "check_username" THEN UsernameTaken
                     ELSE UniqueViolation
                /\ users' = users
        /\ users' # users
             => \E s \in Sessions :
                  /\ At(s, "register", "commit")
                  /\ req'[s] # req[s]
                  /\ \E u \in users : u.username = req[s].token /\ u.role = "admin"
                  /\ \A u \in users : u.username # req[s].fields.username
                  /\ \E u \in users' : /\ u.username = req[s].fields.username
                                       /\ users' = users \cup {u}
       ]_vars

\* One register request was refused for its caller's role and another for its
\* username, after a registration succeeded.
C10_Witness ==
  \E s \in Sessions, t \in Sessions :
    /\ req[s].op = "register"
    /\ req[s].result = Forbidden
    /\ req[t].op = "register"
    /\ req[t].result = UsernameTaken
    /\ Cardinality(users) > 1

(* ====================== C11: roles ====================================== *)
\* C11: in every state the role of every stored user is one of admin, teacher
\* (the two values models.User documents for the column).
C11_RoleClosed == \A u \in users : u.role \in {"admin", "teacher"}

(* ====================== C12: enroll, missing student or course ========= *)
\* C12: an enroll request whose student or course the handler did not find ends
\* with the NotFound outcome, which is not the outcome an already-enrolled pair
\* gets, and the enrollments table is as it was.
C12_EnrollNotFound ==
  [][\A s \in Sessions :
       (/\ At(s, "enroll", "get_course")
        /\ req'[s] # req[s]
        /\ \/ ~req[s].db_obj
           \/ ~\E c \in courses : c.id = req[s].course_id)
       => /\ req'[s].pc = "done"
          /\ req'[s].result = NotFound
          /\ enrollments' = enrollments
    ]_vars

(* ====================== C13: upload ===================================== *)
\* C13: an upload request that ends in failure after it reached the point of
\* writing leaves no file of its own at its path (a file that was there before
\* a write that never started may stay) and leaves the students table as it
\* was; and a step that sets a student's profile_pic sets it to a path at which
\* the complete file exists.
C13_UploadAllOrNothing ==
  [][/\ \A s \in Sessions :
          (/\ req[s].op = "upload"
           /\ req[s].pc \in {"save", "update_get", "commit"}
           /\ req'[s].pc = "done"
           /\ req'[s].result # Ok)
          => /\ \A f \in files' :
                  f.path = file_path(req[s].student_id, req[s].fields.ext)
                  => (req[s].pc = "save" /\ f \in files)
             /\ students' = students
     /\ \A st \in students' :
          (/\ st.profile_pic # NoPic
           /\ \E old \in students : old.id = st.id /\ old.profile_pic # st.profile_pic)
          => [path |-> st.profile_pic, complete |-> TRUE] \in files'
    ]_vars

(* ====================== C14: partial update ============================= *)
\* C14: a step of an update-student (update-course) request leaves the users,
\* the enrollments, the files and the other table as they were, keeps the set
\* of row ids, leaves every row with another id as it was, and in the row with
\* the request's id keeps the id, the profile_pic and every field the payload
\* did not supply; and when the handler's lookup finds no row with the id the
\* request ends with NotFound and no table has changed.
C14_PartialUpdate ==
  [][/\ \A s \in Sessions :
          (/\ req[s].op = "update_student"
           /\ req[s].pc \in {"get", "commit"}
           /\ req'[s] # req[s])
          => /\ <<users, courses, enrollments, files>>' =
                  <<users, courses, enrollments, files>>
             /\ {st.id : st \in students'} = {st.id : st \in students}
             /\ \A old \in students, new \in students' :
                  old.id = new.id
                  => /\ old.id # req[s].student_id => new = old
                     /\ new.profile_pic = old.profile_pic
                     /\ \A c \in {"name", "email"} :
                          req[s].fields[c] = Unset => new[c] = old[c]
             /\ (/\ req[s].pc = "get"
                 /\ ~\E st \in students : st.id = req[s].student_id)
                => /\ req'[s].result = NotFound
                   /\ students' = students
     /\ \A s \in Sessions :
          (/\ req[s].op = "update_course"
           /\ req[s].pc \in {"get", "commit"}
           /\ req'[s] # req[s])
          => /\ <<users, students, enrollments, files>>' =
                  <<users, students, enrollments, files>>
             /\ {c.id : c \in courses'} = {c.id : c \in courses}
             /\ \A old \in courses, new \in courses' :
                  old.id = new.id
                  => /\ old.id # req[s].course_id => new = old
                     /\ \A c \in {"title", "description"} :
                          req[s].fields[c] = Unset => new[c] = old[c]
             /\ (/\ req[s].pc = "get"
                 /\ ~\E c \in courses : c.id = req[s].course_id)
                => /\ req'[s].result = NotFound
                   /\ courses' = courses
    ]_vars

\* A student's name was replaced while its email stayed, next to a second
\* student that no update touched; a course's description was replaced while
\* its title stayed; and an update of an id that no row has was answered.
C14_Witness ==
  \E s \in Sessions, t \in Sessions :
    /\ req[s].op = "update_student"
    /\ req[s].result = Ok
    /\ req[t].op = "update_course"
    /\ req[t].result = NotFound
    /\ \E a \in students, b \in students :
         /\ a.name = "n2" /\ a.email = "e1"
         /\ b.name = "n1" /\ b.email = "e2"
    /\ \E c \in courses : c.title = "t1" /\ c.description = "d1"

(* ====================== C15: the life of a link ========================= *)
\* C15: for every pair (i, j): a link for the pair appears only by the commit of
\* an enroll request for the pair that succeeds; it disappears only by the
\* commit of a delete_enrollment call for the pair or of a delete of student i
\* or of course j; a delete_enrollment call whose lookup finds no link for its
\* pair fails and changes no table; and a delete_enrollment call that succeeds
\* leaves no link for its pair, and leaves the links of the other pairs, the
\* students and the courses as they were.
C15_LinkLifecycle ==
  [][/\ \A i \in Ids, j \in Ids :
          LET present == \E e \in enrollments : e.student_id = i /\ e.course_id = j
              presentNext == \E e \in enrollments' : e.student_id = i /\ e.course_id = j
          IN /\ (~present /\ presentNext)
                => \E s \in Sessions :
                     /\ At(s, "enroll", "commit")
                     /\ req[s].student_id = i /\ req[s].course_id = j
                     /\ req'[s].result = Ok
             /\ (present /\ ~presentNext)
                => \E s \in Sessions :
                     /\ req[s].pc = "commit"
                     /\ req'[s].pc = "done"
                     /\ \/ /\ req[s].op = "delete_enrollment"
                           /\ req[s].student_id = i /\ req[s].course_id = j
                        \/ req[s].op = "delete_student" /\ req[s].student_id = i
                        \/ req[s].op = "delete_course" /\ req[s].course_id = j
     /\ \A s \in Sessions :
          (/\ At(s, "delete_enrollment", "get")
           /\ req'[s] # req[s]
           /\ ~\E e \in enrollments : /\ e.student_id = req[s].student_id
                                      /\ e.course_id = req[s].course_id)
          => /\ req'[s].result = NoEnrollment
             /\ tables' = tables
     /\ \A s \in Sessions :
          (/\ req[s].op = "delete_enrollment"
           /\ req'[s].pc = "done"
           /\ req'[s].result = Deleted
           /\ req'[s] # req[s])
          => /\ ~\E e \in enrollments' : /\ e.student_id = req[s].student_id
                                        /\ e.course_id = req[s].course_id
             /\ {e \in enrollments' : <<e.student_id, e.course_id>> #
                                        <<req[s].student_id, req[s].course_id>>}
                = {e \in enrollments : <<e.student_id, e.course_id>> #
                                         <<req[s].student_id, req[s].course_id>>}
             /\ students' = students
             /\ courses' = courses
    ]_vars

====
